---- MODULE Spec2Model ----
(***************************************************************************)
(* Attendance backend (final/main.py; appdevfin/main.py is the same code   *)
(* without announcements and student messages).  The state is the document *)
(* store (three collections and the unique index of `students`), the clock *)
(* read by datetime.now(), and, per worker thread, the position of the     *)
(* request handler it runs.  Every pymongo call is one atomic step; what a *)
(* handler computes locally before or after a call belongs to that step.   *)
(***************************************************************************)
EXTENDS Integers, Naturals, Sequences, FiniteSets, TLC

(* ---- bounds of the model ---- *)
MaxId == 2
MaxClock == 1
HexWidth == 2

(* ---- program constants ---- *)
HTTP_200_OK == 200
HTTP_201_CREATED == 201
HTTP_404_NOT_FOUND == 404
HTTP_409_CONFLICT == 409
HTTP_500_INTERNAL_SERVER_ERROR == 500

Workers == {"w1", "w2"}
Names == {"Alice", "Bob"}
Dates == {"2024-01-01", "2024-01-02"}
Contents == {"hello"}
Authors == {"teacher"}
Senders == {"Anonymous"}
Contacts == {""}

VARIABLES
    phase,            \* module start-up position: "drop_indexes", "create_index", "serving"
    uniqueIndex,      \* the unique index on (date, name) of students exists
    students,         \* db["students"]: set of documents
    announcements,    \* db["announcements"]
    student_messages, \* db.student_messages
    nextId,           \* next ObjectId the driver generates
    now,              \* last value datetime.now() returned
    local,            \* per worker: the handler it runs and that handler's locals
    last              \* the last completed request with its response: <<>> or <<exchange>>

vars == <<phase, uniqueIndex, students, announcements, student_messages,
          nextId, now, local, last>>

store == <<uniqueIndex, students, announcements, student_messages, nextId>>

(* ------------------------------------------------------------------ *)
(* bson.ObjectId <-> str                                                *)
(* ------------------------------------------------------------------ *)
RECURSIVE Pow16(_)
Pow16(w) == IF w = 0 THEN 1 ELSE 16 * Pow16(w - 1)

\* str(ObjectId): HexWidth hexadecimal digits, most significant first
ObjectIdStr(oid) == [i \in 1..HexWidth |-> (oid \div Pow16(HexWidth - i)) % 16]

\* ObjectId.is_valid: a string of exactly HexWidth hexadecimal digits
ObjectIdValid(s) == Len(s) = HexWidth /\ \A i \in 1..Len(s) : s[i] \in 0..15

RECURSIVE HexValue(_, _)
HexValue(s, n) == IF n = 0 THEN 0 ELSE 16 * HexValue(s, n - 1) + s[n]

\* ObjectId(str)
ObjectIdParse(s) == HexValue(s, Len(s))

\* message_id path parameters a client may send: ids handed out, one never
\* handed out, a string too short and one with a non-hexadecimal character (16)
MessageIds ==
    {ObjectIdStr(i) : i \in 1..(MaxId + 1)} \cup
    {[i \in 1..(HexWidth - 1) |-> 0], [i \in 1..HexWidth |-> 16]}

(* ------------------------------------------------------------------ *)
(* collection operations                                                *)
(* ------------------------------------------------------------------ *)
\* find({"name": name, "date": date})
FindByKey(coll, name, date) == {d \in coll : d.name = name /\ d.date = date}

\* find({}) in place of find({"date": date})
FindByDateAll(coll, date) == coll

\* find({"date": date})
FindByDate(coll, date) == {d \in coll : d.date = date}

\* no two documents share (date, name): what a unique index requires
NoDuplicateKey(coll) ==
    \A a, b \in coll : (a.name = b.name /\ a.date = b.date) => a = b

\* an update that flips is_present in place of setting it
SetPresentToggle(doc, v) == [doc EXCEPT !.is_present = ~doc.is_present]

\* update_one(filter, {"$set": {"is_present": v}}) applied to document `doc`
SetPresent(doc, v) == [doc EXCEPT !.is_present = v]

\* delete_many({}) in place of delete_one
DeleteOneAll(coll, oid) == {}

\* delete_one({"_id": oid})
DeleteOne(coll, oid) == {d \in coll : d._id # oid}

\* a cursor's documents in natural (insertion) order
RECURSIVE NaturalOrder(_)
NaturalOrder(coll) ==
    IF coll = {} THEN <<>>
    ELSE LET first == CHOOSE d \in coll : \A e \in coll : d._id <= e._id
         IN <<first>> \o NaturalOrder(coll \ {first})

\* the orders .sort("timestamp", -1) may return: newest first, ties in any order
SortedDesc(coll) ==
    {s \in [1..Cardinality(coll) -> coll] :
        /\ \A i, j \in DOMAIN s : i # j => s[i] # s[j]
        /\ \A i, j \in DOMAIN s : i < j => s[i].timestamp >= s[j].timestamp}

\* the values datetime.now() may return next
Clock == {t \in now..(now + 1) : t <= MaxClock}

(* ------------------------------------------------------------------ *)
(* response models                                                      *)
(* ------------------------------------------------------------------ *)
StudentResponse(d) ==
    [name |-> d.name, date |-> d.date, is_present |-> d.is_present,
     timestamp |-> d.timestamp]

AnnouncementResponse(d) ==
    [content |-> d.content, author |-> d.author, timestamp |-> d.timestamp]

StudentMessageResponse(d) ==
    [content |-> d.content, sender |-> d.sender, contact_info |-> d.contact_info,
     timestamp |-> d.timestamp, id |-> ObjectIdStr(d._id)]

\* [StudentResponse(...) for student in student_list] and its like
StudentResponses(s) == [i \in DOMAIN s |-> StudentResponse(s[i])]
AnnouncementResponses(s) == [i \in DOMAIN s |-> AnnouncementResponse(s[i])]
StudentMessageResponses(s) == [i \in DOMAIN s |-> StudentMessageResponse(s[i])]

(* ------------------------------------------------------------------ *)
(* exceptions                                                           *)
(* ------------------------------------------------------------------ *)
HTTPException(status_code) == [type |-> "HTTPException", status_code |-> status_code]
DuplicateKeyError == [type |-> "DuplicateKeyError"]
TypeError == [type |-> "TypeError"]
InvalidId == [type |-> "InvalidId"]

\* `except Exception as e: raise HTTPException(500, ...)`: HTTPException is an
\* Exception, so the clause catches what the handler itself raised as well
ExceptException(e) == HTTPException(HTTP_500_INTERNAL_SERVER_ERROR)

\* an exception no handler caught: the framework answers 500
Uncaught(e) == HTTPException(HTTP_500_INTERNAL_SERVER_ERROR)

Idle == [pc |-> "idle"]

\* the response leaves: the worker is free again and the exchange is recorded
Reply(p, req, status, raised, body, trips) ==
    LET e == [req |-> req, status |-> status, raised |-> raised,
              body |-> body, trips |-> trips]
    IN /\ last' = <<e>>
       /\ local' = [local EXCEPT ![p] = Idle]

\* the handler's try block raised e
Fail(p, req, e, trips) ==
    Reply(p, req, ExceptException(e).status_code, e.type, "detail", trips)

Init ==
    /\ phase = "drop_indexes"
    /\ uniqueIndex = FALSE
    /\ students = {}
    /\ announcements = {}
    /\ student_messages = {}
    /\ nextId = 1
    /\ now = 0
    /\ local = [p \in Workers |-> Idle]
    /\ last = <<>>

(* ------------------------------------------------------------------ *)
(* start-up: index bootstrap                                            *)
(* ------------------------------------------------------------------ *)
\* students.drop_indexes()
drop_indexes ==
    /\ phase = "drop_indexes"
    /\ uniqueIndex' = FALSE
    /\ phase' = "create_index"
    /\ UNCHANGED <<students, announcements, student_messages, nextId, now, local, last>>

\* the index build without unique=True
create_index_not_unique ==
    /\ phase = "create_index"
    /\ uniqueIndex' = FALSE
    /\ phase' = "serving"
    /\ UNCHANGED <<students, announcements, student_messages, nextId, now, local, last>>

\* students.create_index([("date", 1), ("name", 1)], unique=True): the build
\* fails on a collection that holds a duplicate key; the failure is printed
\* and the application serves without the index
create_index ==
    /\ phase = "create_index"
    /\ uniqueIndex' = NoDuplicateKey(students)
    /\ phase' = "serving"
    /\ UNCHANGED <<students, announcements, student_messages, nextId, now, local, last>>

\* the process is stopped and started again: requests in flight are lost,
\* the store keeps its documents, the module body runs again
Restart ==
    /\ phase = "serving"
    /\ phase' = "drop_indexes"
    /\ local' = [p \in Workers |-> Idle]
    /\ last' = <<>>
    /\ UNCHANGED <<uniqueIndex, students, announcements, student_messages, nextId, now>>

\* a worker is free to take a request
Free(p) == phase = "serving" /\ local[p].pc = "idle"

\* ObjectIds left for the inserts of requests already past their pre-check
Reserved == Cardinality({q \in Workers : local[q].pc = "create_insert"})
CanInsert == nextId + Reserved <= MaxId

(* ------------------------------------------------------------------ *)
(* POST /students                                                       *)
(* ------------------------------------------------------------------ *)
\* insert_one on students raises DuplicateKeyError: the unique index holds the key
InsertRejected(name, date) ==
    uniqueIndex /\ FindByKey(students, name, date) # {}

\* student.dict(), datetime.now(), find_one, `if existing: raise 409`
create_student_find_existing(p) ==
    /\ Free(p)
    /\ CanInsert
    /\ \E name \in Names, date \in Dates, is_present \in BOOLEAN, t \in Clock :
        LET req == [op |-> "create_student", name |-> name, date |-> date,
                    is_present |-> is_present]
        IN /\ now' = t
           /\ IF FindByKey(students, name, date) # {}
              THEN Fail(p, req, HTTPException(HTTP_409_CONFLICT), 1)
              ELSE /\ local' = [local EXCEPT ![p] =
                          [pc |-> "create_insert", req |-> req, timestamp |-> t,
                           trips |-> 1]]
                   /\ UNCHANGED last
    /\ UNCHANGED <<phase, store>>

\* result = students.insert_one(student_dict)
create_student_insert_one(p) ==
    /\ phase = "serving"
    /\ local[p].pc = "create_insert"
    /\ LET l == local[p]
           doc == [_id |-> nextId, name |-> l.req.name, date |-> l.req.date,
                   is_present |-> l.req.is_present, timestamp |-> l.timestamp]
       IN IF InsertRejected(l.req.name, l.req.date)
          THEN /\ Fail(p, l.req, DuplicateKeyError, l.trips + 1)
               /\ UNCHANGED <<students, nextId>>
          ELSE /\ students' = students \cup {doc}
               /\ nextId' = nextId + 1
               /\ local' = [local EXCEPT ![p] =
                      [l EXCEPT !.pc = "create_find", !.trips = l.trips + 1]]
               /\ UNCHANGED last
    /\ UNCHANGED <<phase, uniqueIndex, announcements, student_messages, now>>

\* created_student = students.find_one(...); return StudentResponse(...)
create_student_find_created(p) ==
    /\ phase = "serving"
    /\ local[p].pc = "create_find"
    /\ LET l == local[p]
           found == FindByKey(students, l.req.name, l.req.date)
       IN IF found = {}
          THEN Fail(p, l.req, TypeError, l.trips + 1)
          ELSE \E d \in found :
                 Reply(p, l.req, HTTP_201_CREATED, "none", StudentResponse(d),
                       l.trips + 1)
    /\ UNCHANGED <<phase, store, now>>

(* ------------------------------------------------------------------ *)
(* PUT /students/{name}/{date}                                          *)
(* ------------------------------------------------------------------ *)
\* result = students.update_one(...); a matched_count of 0 raises the 404
update_attendance_update_one(p) ==
    /\ Free(p)
    /\ \E name \in Names, date \in Dates, is_present \in BOOLEAN :
        LET req == [op |-> "update_attendance", name |-> name, date |-> date,
                    is_present |-> is_present]
            matched == FindByKey(students, name, date)
        IN IF matched = {}
           THEN /\ Fail(p, req, HTTPException(HTTP_404_NOT_FOUND), 1)
                /\ UNCHANGED students
           ELSE /\ \E d \in matched :
                     students' = (students \ {d}) \cup {SetPresent(d, is_present)}
                /\ local' = [local EXCEPT ![p] =
                       [pc |-> "update_find", req |-> req, trips |-> 1]]
                /\ UNCHANGED last
    /\ UNCHANGED <<phase, uniqueIndex, announcements, student_messages, nextId, now>>

\* updated_student = students.find_one(...); return StudentResponse(...)
update_attendance_find_one(p) ==
    /\ phase = "serving"
    /\ local[p].pc = "update_find"
    /\ LET l == local[p]
           found == FindByKey(students, l.req.name, l.req.date)
       IN IF found = {}
          THEN Fail(p, l.req, TypeError, l.trips + 1)
          ELSE \E d \in found :
                 Reply(p, l.req, HTTP_200_OK, "none", StudentResponse(d),
                       l.trips + 1)
    /\ UNCHANGED <<phase, store, now>>

(* ------------------------------------------------------------------ *)
(* GET /students/{date}, DELETE /students                               *)
(* ------------------------------------------------------------------ *)
\* the listing with a count_documents call ahead of the find
get_students_count_first(p) ==
    /\ Free(p)
    /\ \E date \in Dates :
        Reply(p, [op |-> "get_students", date |-> date], HTTP_200_OK, "none",
              StudentResponses(NaturalOrder(FindByDate(students, date))), 2)
    /\ UNCHANGED <<phase, store, now>>

\* student_list = list(students.find({"date": date}))
get_students(p) ==
    /\ Free(p)
    /\ \E date \in Dates :
        Reply(p, [op |-> "get_students", date |-> date], HTTP_200_OK, "none",
              StudentResponses(NaturalOrder(FindByDate(students, date))), 1)
    /\ UNCHANGED <<phase, store, now>>

\* result = students.delete_many({}); a deleted_count of 0 raises the 404
clear_students(p) ==
    /\ Free(p)
    /\ students' = {}
    /\ IF Cardinality(students) = 0
       THEN Fail(p, [op |-> "clear_students"], HTTPException(HTTP_404_NOT_FOUND), 1)
       ELSE Reply(p, [op |-> "clear_students"], HTTP_200_OK, "none", "message", 1)
    /\ UNCHANGED <<phase, uniqueIndex, announcements, student_messages, nextId, now>>

(* ------------------------------------------------------------------ *)
(* announcements                                                        *)
(* ------------------------------------------------------------------ *)
\* announcement.dict(), datetime.now(), result = announcements.insert_one(...)
create_announcement_insert_one(p) ==
    /\ Free(p)
    /\ CanInsert
    /\ \E content \in Contents, author \in Authors, t \in Clock :
        LET req == [op |-> "create_announcement", content |-> content,
                    author |-> author]
            doc == [_id |-> nextId, content |-> content, author |-> author,
                    timestamp |-> t]
        IN /\ now' = t
           /\ announcements' = announcements \cup {doc}
           /\ nextId' = nextId + 1
           /\ local' = [local EXCEPT ![p] =
                  [pc |-> "announcement_find", req |-> req, inserted_id |-> nextId,
                   trips |-> 1]]
    /\ UNCHANGED <<phase, uniqueIndex, students, student_messages, last>>

\* created_announcement = announcements.find_one({"_id": result.inserted_id})
create_announcement_find_one(p) ==
    /\ phase = "serving"
    /\ local[p].pc = "announcement_find"
    /\ LET l == local[p]
           found == {d \in announcements : d._id = l.inserted_id}
       IN IF found = {}
          THEN Fail(p, l.req, TypeError, l.trips + 1)
          ELSE \E d \in found :
                 Reply(p, l.req, HTTP_201_CREATED, "none", AnnouncementResponse(d),
                       l.trips + 1)
    /\ UNCHANGED <<phase, store, now>>

\* list(announcements.find().sort("timestamp", -1))
get_announcements(p) ==
    /\ Free(p)
    /\ \E s \in SortedDesc(announcements) :
        Reply(p, [op |-> "get_announcements"], HTTP_200_OK, "none",
              AnnouncementResponses(s), 1)
    /\ UNCHANGED <<phase, store, now>>

\* result = db["announcements"].delete_many({}); a deleted_count of 0 raises the 404
clear_announcements(p) ==
    /\ Free(p)
    /\ announcements' = {}
    /\ IF Cardinality(announcements) = 0
       THEN Fail(p, [op |-> "clear_announcements"],
                 HTTPException(HTTP_404_NOT_FOUND), 1)
       ELSE Reply(p, [op |-> "clear_announcements"], HTTP_200_OK, "none",
                  "message", 1)
    /\ UNCHANGED <<phase, uniqueIndex, students, student_messages, nextId, now>>

(* ------------------------------------------------------------------ *)
(* GET /health                                                          *)
(* ------------------------------------------------------------------ *)
\* client.admin.command('ping'), datetime.now().isoformat()
health_check(p) ==
    /\ Free(p)
    /\ \E t \in Clock :
        /\ now' = t
        /\ Reply(p, [op |-> "health_check"], HTTP_200_OK, "none",
                 [status |-> "healthy", database |-> "connected", timestamp |-> t], 1)
    /\ UNCHANGED <<phase, store>>

(* ------------------------------------------------------------------ *)
(* student messages                                                     *)
(* ------------------------------------------------------------------ *)
\* message.dict(), datetime.now(), insert_one, {**message_data, "id": str(inserted_id)}
create_message(p) ==
    /\ Free(p)
    /\ CanInsert
    /\ \E content \in Contents, sender \in Senders, contact \in Contacts, t \in Clock :
        LET req == [op |-> "create_message", content |-> content,
                    sender |-> sender, contact_info |-> contact]
            doc == [_id |-> nextId, content |-> content, sender |-> sender,
                    contact_info |-> contact, timestamp |-> t]
        IN /\ now' = t
           /\ student_messages' = student_messages \cup {doc}
           /\ nextId' = nextId + 1
           /\ Reply(p, req, HTTP_200_OK, "none", StudentMessageResponse(doc), 1)
    /\ UNCHANGED <<phase, uniqueIndex, students, announcements>>

\* for msg in db.student_messages.find().sort("timestamp", -1): msg["id"] = str(msg["_id"])
get_messages(p) ==
    /\ Free(p)
    /\ \E s \in SortedDesc(student_messages) :
        Reply(p, [op |-> "get_messages"], HTTP_200_OK, "none",
              StudentMessageResponses(s), 1)
    /\ UNCHANGED <<phase, store, now>>

\* db.student_messages.delete_one({"_id": ObjectId(message_id)}); no try block:
\* ObjectId() raises InvalidId before the store is reached
delete_message(p) ==
    /\ Free(p)
    /\ \E message_id \in MessageIds :
        LET req == [op |-> "delete_message", message_id |-> message_id]
        IN IF ~ObjectIdValid(message_id)
           THEN /\ Reply(p, req, Uncaught(InvalidId).status_code, InvalidId.type,
                         "detail", 0)
                /\ UNCHANGED student_messages
           ELSE /\ student_messages' =
                      DeleteOne(student_messages, ObjectIdParse(message_id))
                /\ Reply(p, req, HTTP_200_OK, "none", [status |-> "deleted"], 1)
    /\ UNCHANGED <<phase, uniqueIndex, students, announcements, nextId, now>>

(* ------------------------------------------------------------------ *)
(* the system                                                           *)
(* ------------------------------------------------------------------ *)
Handler(p) ==
    \/ create_student_find_existing(p)
    \/ create_student_insert_one(p)
    \/ create_student_find_created(p)
    \/ update_attendance_update_one(p)
    \/ update_attendance_find_one(p)
    \/ get_students(p)
    \/ clear_students(p)
    \/ create_announcement_insert_one(p)
    \/ create_announcement_find_one(p)
    \/ get_announcements(p)
    \/ clear_announcements(p)
    \/ health_check(p)
    \/ create_message(p)
    \/ get_messages(p)
    \/ delete_message(p)

StudentsHandler(p) ==
    \/ create_student_find_existing(p)
    \/ create_student_insert_one(p)
    \/ create_student_find_created(p)
    \/ update_attendance_update_one(p)
    \/ update_attendance_find_one(p)
    \/ get_students(p)
    \/ clear_students(p)

Boot == drop_indexes \/ create_index \/ Restart

\* every endpoint, served by concurrent worker threads
Next == Boot \/ \E p \in Workers : Handler(p)

\* the requests on the students collection alone, served concurrently
StudentsNext == Boot \/ \E p \in Workers : StudentsHandler(p)

StudentsSpec == Init /\ [][StudentsNext]_vars

Spec == Init /\ [][Next]_vars

\* no other worker has a request in hand
Alone(p) == \A q \in Workers \ {p} : local[q].pc = "idle"

\* one client that waits for each response before it sends the next request
SeqNext ==
    \/ Boot
    \/ \E p \in Workers : Alone(p) /\ create_student_find_existing(p)
    \/ \E p \in Workers : Alone(p) /\ create_student_insert_one(p)
    \/ \E p \in Workers : Alone(p) /\ create_student_find_created(p)
    \/ \E p \in Workers : Alone(p) /\ update_attendance_update_one(p)
    \/ \E p \in Workers : Alone(p) /\ update_attendance_find_one(p)
    \/ \E p \in Workers : Alone(p) /\ get_students(p)
    \/ \E p \in Workers : Alone(p) /\ clear_students(p)
    \/ \E p \in Workers : Alone(p) /\ create_announcement_insert_one(p)
    \/ \E p \in Workers : Alone(p) /\ create_announcement_find_one(p)
    \/ \E p \in Workers : Alone(p) /\ get_announcements(p)
    \/ \E p \in Workers : Alone(p) /\ clear_announcements(p)
    \/ \E p \in Workers : Alone(p) /\ health_check(p)
    \/ \E p \in Workers : Alone(p) /\ create_message(p)
    \/ \E p \in Workers : Alone(p) /\ get_messages(p)
    \/ \E p \in Workers : Alone(p) /\ delete_message(p)

SeqSpec == Init /\ [][SeqNext]_vars

(* ------------------------------------------------------------------ *)
(* properties                                                           *)
(* ------------------------------------------------------------------ *)
\* this step hands out the response of a request of kind op
Completed(op) == last' # last /\ last' # <<>> /\ last'[1].req.op = op

\* the last exchange was a request of kind op
LastIs(op) == last # <<>> /\ last[1].req.op = op

\* the documents of students with the key (name, date)
Holding(coll, name, date) == {d \in coll : d.name = name /\ d.date = date}

\* C1: two sequential POST /students for a pair not yet in the collection:
\* the first answers 201, the second 409, and one record holds the pair.
C1_CreateTwice ==
    [][/\ (Completed("create_student") /\ \E p \in Workers : local[p].pc = "create_find")
          => /\ last'[1].status = HTTP_201_CREATED
             /\ Cardinality(Holding(students', last'[1].req.name, last'[1].req.date)) = 1
       /\ (/\ LastIs("create_student")
           /\ last[1].status = HTTP_201_CREATED
           /\ Completed("create_student")
           /\ last'[1].req.name = last[1].req.name
           /\ last'[1].req.date = last[1].req.date)
          => /\ last'[1].status = HTTP_409_CONFLICT
             /\ Cardinality(Holding(students', last[1].req.name, last[1].req.date)) = 1
      ]_vars

\* C2: PUT /students/{name}/{date} for a pair with no record answers 404 and
\* leaves the collection as it was.
C2_UpdateMissing ==
    [][(/\ Completed("update_attendance")
        /\ Holding(students, last'[1].req.name, last'[1].req.date) = {})
       => /\ last'[1].status = HTTP_404_NOT_FOUND
          /\ students' = students
      ]_vars

\* C3: DELETE /students and DELETE /announcements answer 404 on an empty
\* collection; on a non-empty one they succeed and leave it empty.
C3_ClearEmpty ==
    [][/\ Completed("clear_students")
          => IF students = {}
             THEN last'[1].status = HTTP_404_NOT_FOUND /\ students' = {}
             ELSE last'[1].status = HTTP_200_OK /\ students' = {}
       /\ Completed("clear_announcements")
          => IF announcements = {}
             THEN last'[1].status = HTTP_404_NOT_FOUND /\ announcements' = {}
             ELSE last'[1].status = HTTP_200_OK /\ announcements' = {}
      ]_vars

\* C4: a POST /students whose insert the store rejects with a unique-constraint
\* violation (a concurrent request inserted the pair after both passed the
\* pre-check) is answered 409, and one record holds the pair.
C4_RaceIsConflict ==
    [][(Completed("create_student") /\ last'[1].raised = "DuplicateKeyError")
       => /\ last'[1].status = HTTP_409_CONFLICT
          /\ Cardinality(Holding(students', last'[1].req.name, last'[1].req.date)) = 1
      ]_vars

C6_ListByDate ==
    [][Completed("get_students")
       => LET body == last'[1].body
              match == {d \in students : d.date = last'[1].req.date}
          IN /\ Len(body) = Cardinality(match)
             /\ {body[i] : i \in DOMAIN body} =
                {[name |-> d.name, date |-> d.date, is_present |-> d.is_present,
                  timestamp |-> d.timestamp] : d \in match}
             /\ \A i \in DOMAIN body : body[i].date = last'[1].req.date
      ]_vars

\* C6 witness: a listing that returned a record while a record of another date
\* was in the collection
C6_Witness ==
    /\ LastIs("get_students")
    /\ Len(last[1].body) >= 1
    /\ \E d \in students : d.date # last[1].req.date
    /\ \E d \in students : d.date = last[1].req.date
    /\ \A p \in Workers : local[p].pc = "idle"

\* C7: with no request in between, a second identical PUT on an existing record
\* leaves the collection as the first left it and returns the same response.
C7_UpdateIdempotent ==
    [][\A p \in Workers :
        (/\ LastIs("update_attendance")
         /\ last[1].status = HTTP_200_OK
         /\ phase' = "serving"
         /\ local'[p].pc = "update_find" \/ local[p].pc = "update_find"
         /\ LET r == IF local[p].pc = "update_find" THEN local[p].req ELSE local'[p].req
            IN r = last[1].req)
        => /\ students' = students
           /\ last' = last
      ]_vars

\* C7 witness: the update_one of the second identical PUT has run
C7_Witness ==
    /\ LastIs("update_attendance")
    /\ last[1].status = HTTP_200_OK
    /\ \E p \in Workers : local[p].pc = "update_find" /\ local[p].req = last[1].req

\* C8: DELETE /student-messages/{id} with the id of an existing message removes
\* that message alone, and a following GET /student-messages does not list it.
C8_DeleteOnlyThat ==
    [][/\ (/\ Completed("delete_message")
           /\ \E m \in student_messages :
                StudentMessageResponse(m).id = last'[1].req.message_id)
          => /\ last'[1].status = HTTP_200_OK
             /\ \E m \in student_messages :
                  /\ StudentMessageResponse(m).id = last'[1].req.message_id
                  /\ student_messages' = student_messages \ {m}
       /\ (/\ LastIs("delete_message")
           /\ last[1].status = HTTP_200_OK
           /\ Completed("get_messages"))
          => /\ \A i \in DOMAIN last'[1].body :
                  last'[1].body[i].id # last[1].req.message_id
             /\ Len(last'[1].body) = Cardinality(student_messages)
      ]_vars

\* C8 witness: a message was deleted by its id and another one is still stored
C8_Witness ==
    /\ LastIs("delete_message")
    /\ last[1].status = HTTP_200_OK
    /\ ObjectIdParse(last[1].req.message_id) < nextId
    /\ \A m \in student_messages : m._id # ObjectIdParse(last[1].req.message_id)
    /\ student_messages # {}
    /\ students = {} /\ announcements = {}

\* the store operations a handler may issue for one request
MaxTrips(op) ==
    CASE op = "create_student" -> 3
      [] op = "update_attendance" -> 2
      [] op = "create_announcement" -> 2
      [] OTHER -> 1

\* C9 (as stated): every request performs at most one store round trip.
C9_SingleRoundTrip ==
    last # <<>> => last[1].trips <= 1

\* C9 (amended): a request performs at most three store round trips: POST
\* /students up to three, PUT /students and POST /announcements up to two,
\* every other handler at most one.
C9_RoundTripsPerHandler ==
    last # <<>> => last[1].trips <= MaxTrips(last[1].req.op)

\* C9 witness: a POST /students answered after three store operations
C9_Witness ==
    /\ LastIs("create_student")
    /\ last[1].status = HTTP_201_CREATED
    /\ last[1].trips = 3

\* C10: a PUT whose update_one matched a record is answered 200 with the
\* is_present it asked for, under any interleaving with other requests.
C10_UpdateReturnsRequested ==
    (LastIs("update_attendance") /\ last[1].raised # "HTTPException")
    => /\ last[1].status = HTTP_200_OK
       /\ last[1].body.is_present = last[1].req.is_present

====
